---- MODULE Spec2Model ----
(***************************************************************************)
(* Deterministic pseudorandom generation keyed by (Seed, PrngKey, type):   *)
(* a model of src/lib.rs.                                                  *)
(*                                                                         *)
(* Fixed-width integers are little-endian byte sequences (index 1 is the   *)
(* least significant byte): a u128 is 16 bytes, a u64 is 8 bytes.  All     *)
(* arithmetic is done at the full width of the Rust types.                 *)
(***************************************************************************)
EXTENDS Integers, Sequences, FiniteSets, TLC

VARIABLES
    endian, \* the platform's byte order, which u128::from_ne_bytes follows
    seed,   \* the caller's Seed (its u128)
    made,   \* the Seed::new_from_str calls so far: [str, seed]
    vals,   \* the generate calls so far: [seed, key, T, value]
    gens    \* the generators returned by rng so far:
            \* [seed, key, T, init, state, outs], outs the values drawn

vars == << endian, seed, made, vals, gens >>

\* ------------------------------------------------------------------------
\* Fixed-width integer helpers
\* ------------------------------------------------------------------------

RECURSIVE XorN(_, _, _)
\* bitwise a ^ b on the low n bits of two naturals
XorN(a, b, n) ==
    IF n = 0 THEN 0
    ELSE ((a + b) % 2) + 2 * XorN(a \div 2, b \div 2, n - 1)

\* a ^ b for every pair of bytes, computed once
XorTable == [a \in 0..255 |-> [b \in 0..255 |-> XorN(a, b, 8)]]

\* a ^ b on one byte
XorByte(a, b) == XorTable[a][b]

\* u64 / u128 from a small natural (the literal fits one 31-bit integer)
RECURSIVE LitBytes(_, _)
LitBytes(n, len) ==
    IF len = 0 THEN << >> ELSE << n % 256 >> \o LitBytes(n \div 256, len - 1)

U64(n) == LitBytes(n, 8)
\* u64::MAX
U64_MAX == [i \in 1..8 |-> 255]
U128(n) == LitBytes(n, 16)

\* `a ^ b` on u128 (or any two byte sequences of equal length)
BitXor(a, b) == [i \in 1..Len(a) |-> XorByte(a[i], b[i])]

\* `(k as u128) << 64` for a u64 k: the widened key moved to bytes 8..15
WidenShl64(k) == [i \in 1..16 |-> IF i <= 8 THEN 0 ELSE k[i - 8]]

\* the bits of a byte sequence, least significant first
Bits(x) == [i \in 1..(8 * Len(x)) |-> (x[((i - 1) \div 8) + 1] \div (2 ^ ((i - 1) % 8))) % 2]

RECURSIVE BitsValue(_, _, _)
\* the number whose bits are b[from], b[from+1], ..., b[from+n-1]
BitsValue(b, from, n) ==
    IF n = 0 THEN 0 ELSE b[from] + 2 * BitsValue(b, from + 1, n - 1)

\* the byte sequence whose bits are b (Len(b) a multiple of 8)
FromBits(b) == [i \in 1..(Len(b) \div 8) |-> BitsValue(b, 8 * (i - 1) + 1, 8)]

\* ------------------------------------------------------------------------
\* rand_pcg::Pcg64Mcg (Mcg128Xsl64), the generator built at lib.rs:83
\* ------------------------------------------------------------------------

\* the 128-bit multiplier 0x2360ED051FC65DA44385DF649FCCF645, low byte first
MULTIPLIER ==
    << 69, 246, 204, 159, 100, 223, 133, 67, 164, 93, 198, 31, 5, 237, 96, 35 >>

\* Pcg64Mcg::new: "sets the lowest bit to 1" (state | 1)
Pcg64Mcg_new(state) == [state EXCEPT ![1] = state[1] + (1 - (state[1] % 2))]

RECURSIVE ColumnSum(_, _, _, _)
\* sum of a[i] * b[k + 1 - i] for i in lo..k: column k of the product
ColumnSum(a, b, k, lo) ==
    IF lo > k THEN 0 ELSE a[lo] * b[k + 1 - lo] + ColumnSum(a, b, k, lo + 1)

RECURSIVE MulFrom(_, _, _, _)
\* bytes k..16 of a * b, given the carry into column k
MulFrom(a, b, k, carry) ==
    IF k > 16 THEN << >>
    ELSE LET s == ColumnSum(a, b, k, 1) + carry
         IN  << s % 256 >> \o MulFrom(a, b, k + 1, s \div 256)

\* u128::wrapping_mul
wrapping_mul(a, b) == MulFrom(a, b, 1, 0)

\* output_xsl_rr: rot = state >> 122; xsl = (state >> 64) ^ state (as u64);
\* xsl.rotate_right(rot)
output_xsl_rr(state) ==
    LET rot == state[16] \div 4
        xsl == Bits([i \in 1..8 |-> XorByte(state[i + 8], state[i])])
    IN  FromBits([i \in 1..64 |-> xsl[((i - 1 + rot) % 64) + 1]])

\* RngCore::next_u64: advance the state, then permute it into 64 output bits
next_u64(state) ==
    LET s == wrapping_mul(state, MULTIPLIER)
    IN  [state |-> s, out |-> output_xsl_rr(s)]

\* Standard.sample for f64: `(rng.next_u64() >> 11) as f64 * 2^-53`.  The f64 is
\* represented exactly by its 53-bit numerator, as 7 bytes.
sample_f64(state) ==
    LET r == next_u64(state)
        b == Bits(r.out)
    IN  [state |-> r.state,
         value |-> FromBits([i \in 1..56 |-> IF i <= 53 THEN b[i + 11] ELSE 0])]

\* Standard.sample for u128: two next_u64 calls, the first is the low half
sample_u128(state) ==
    LET lo == next_u64(state)
        hi == next_u64(lo.state)
    IN  [state |-> hi.state, value |-> lo.out \o hi.out]

\* ------------------------------------------------------------------------
\* blake3::hash, tabulated on the strings the model feeds it (32 digest bytes)
\* ------------------------------------------------------------------------

Strings == {"", "test", "value test"}

blake3_hash(s) ==
    CASE s = "" ->
           << 175, 19, 73, 185, 245, 249, 161, 166, 160, 64, 77, 234, 54, 220, 201, 73,
              155, 203, 37, 201, 173, 193, 18, 183, 204, 154, 147, 202, 228, 31, 50, 98 >>
      [] s = "test" ->
           << 72, 120, 202, 4, 37, 199, 57, 250, 66, 127, 126, 218, 32, 254, 132, 95,
              107, 46, 70, 186, 95, 226, 161, 77, 245, 177, 227, 47, 80, 96, 50, 21 >>
      [] s = "value test" ->
           << 79, 77, 61, 197, 133, 66, 51, 187, 84, 156, 187, 13, 101, 15, 13, 121,
              53, 59, 216, 206, 130, 183, 45, 100, 223, 154, 124, 255, 128, 62, 53, 172 >>

\* ------------------------------------------------------------------------
\* The traits and their implementations
\* ------------------------------------------------------------------------

\* The key types: ValueKey(u64) and the unit type ()
ValueKey(index) == [K |-> "ValueKey", v |-> index]
UnitKey == [K |-> "Unit"]

\* PrngKey::key
key(k) == IF k.K = "Unit" THEN U64(0) ELSE k.v

\* The Generate<T> declarations, one per (key type, value type) pair.  Value1,
\* Value2 and Global are the declarations of lib.rs; the callers of the model
\* declare three more: Value3, whose constant is next to Value2's, Value4, which
\* reuses Value1's constant, and Seed, with a constant of 128 random bits.
Impls ==
    { <<"ValueKey", "Value1">>, <<"ValueKey", "Value2">>, <<"Unit", "Global">>,
      <<"ValueKey", "Value3">>, <<"ValueKey", "Value4">>, <<"ValueKey", "Seed">> }

\* Generate<T>::XOR of the declaration of T for key type K
XOR(K, T) ==
    CASE <<K, T>> = <<"ValueKey", "Value1">> -> U128(1)
      [] <<K, T>> = <<"ValueKey", "Value2">> -> U128(2)
      [] <<K, T>> = <<"Unit", "Global">>     -> U128(635184615)
      [] <<K, T>> = <<"ValueKey", "Value3">> -> U128(3)
      [] <<K, T>> = <<"ValueKey", "Value4">> -> U128(1)
      [] <<K, T>> = <<"ValueKey", "Seed">>   ->
           << 158, 55, 121, 185, 127, 74, 124, 21, 243, 155, 204, 144, 139, 123, 177, 81 >>

\* Generate<T>::distribution: every declaration uses the default, Standard
distribution(K, T) == "Standard"

\* Distribution<T>::sample for Standard: Value1, Value2, ... wrap one f64
\* (`Value1(rng.gen())`), a Seed wraps one u128 (`Seed(rng.gen())`).  Returns
\* the value and the generator state after the draw.
sample(dist, T, state) ==
    IF T = "Seed" THEN sample_u128(state) ELSE sample_f64(state)

\* ------------------------------------------------------------------------
\* Seed
\* ------------------------------------------------------------------------

\* Seed::default (derived): Seed(0)
Seed_default == U128(0)

\* From<u128> for Seed
Seed_from(value) == value

\* u128::from_ne_bytes under the platform's byte order
from_ne_bytes(bytes, order) ==
    IF order = "little" THEN bytes ELSE [i \in 1..16 |-> bytes[17 - i]]

\* new_from_str reading the second half of the digest
new_from_str_tail(str, order) ==
    LET hash  == blake3_hash(str)
        bytes == [i \in 1..16 |-> hash[i + 16]]
    IN  from_ne_bytes(bytes, order)

\* Seed::new_from_str on a platform of byte order `order`
new_from_str(str, order) ==
    LET hash  == blake3_hash(str)
        bytes == [i \in 1..16 |-> hash[i]]
    IN  from_ne_bytes(bytes, order)

\* a tag per value type, for rng_seed_tagged
TypeTag(T) ==
    CASE T = "Value1" -> 2 [] T = "Value2" -> 4 [] T = "Value3" -> 6
      [] T = "Value4" -> 8 [] T = "Global" -> 10 [] T = "Seed" -> 12

\* the mix with the key left in the low 64 bits
rng_seed_noshift(self, k, T) ==
    LET widened == [i \in 1..16 |-> IF i <= 8 THEN key(k)[i] ELSE 0]
    IN  BitXor(BitXor(self, XOR(k.K, T)), widened)

\* the mix with the value type's identity mixed in besides its constant
rng_seed_tagged(self, k, T) ==
    LET shifted == WidenShl64(key(k))
    IN  BitXor(BitXor(BitXor(self, XOR(k.K, T)), shifted), U128(TypeTag(T)))

\* `(key.key() as u128) << 64` and `self.0 ^ K::XOR ^ key`: the mix handed to
\* the generator's constructor
rng_seed(self, k, T) ==
    LET shifted == WidenShl64(key(k))
    IN  BitXor(BitXor(self, XOR(k.K, T)), shifted)

\* rng handing the mix to the generator as its state, the low bit not forced
rng_raw(self, k, T) == rng_seed(self, k, T)

\* rng keeping one generator per (seed, key, type) and returning it as it is now
rng_cached(self, k, T) ==
    LET same == {i \in DOMAIN gens :
                    gens[i].seed = self /\ gens[i].key = k /\ gens[i].T = T}
    IN  IF same = {} THEN Pcg64Mcg_new(rng_seed(self, k, T))
        ELSE gens[CHOOSE i \in same : TRUE].state

\* Prng::rng for Seed: the initial state of the returned Pcg64Mcg
rng(self, k, T) == Pcg64Mcg_new(rng_seed(self, k, T))

\* generate drawing from a generator seeded with the number of earlier calls
generate_counted(self, k, T) ==
    LET r == Pcg64Mcg_new(BitXor(rng_seed(self, k, T), WidenShl64(U64(Len(vals)))))
    IN  sample(distribution(k.K, T), T, r).value

\* generate discarding one output of the generator before it samples
generate_warm(self, k, T) ==
    LET r == next_u64(Pcg64Mcg_new(rng_seed(self, k, T))).state
    IN  sample(distribution(k.K, T), T, r).value

\* Prng::generate for Seed
generate(self, k, T) ==
    LET r == rng(self, k, T)
    IN  sample(distribution(k.K, T), T, r).value

\* ------------------------------------------------------------------------
\* The callers: a program that builds Seeds and calls generate and rng
\* ------------------------------------------------------------------------

\* Bounds of the model
MaxOps == 4     \* calls and draws in one history
MaxGens == 2    \* generators compared in the derivation specification

\* Inputs of the call histories
HValues == {U128(1)}
HStrings == {"value test"}
HKeys == {ValueKey(U64(7)), UnitKey}
HTypes == {"Value1", "Value2", "Global"}

\* Inputs of the seed constructions
SValues == {U128(0), U128(1)}
SKeys == {ValueKey(U64(7))}

\* Inputs of the derivations: seeds 0 and 1 differ in bit 0 alone; the calls pair
\* keys 0, 1 and u64::MAX with one type, and one key with types whose constants
\* are equal (Value1, Value4), differ in bit 0 alone (Value2, Value3) or differ
\* in bit 1
DValues == {U128(0), U128(1)}
DCalls ==
    { << ValueKey(U64(0)), "Value1" >>, << ValueKey(U64(1)), "Value1" >>,
      << ValueKey(U64_MAX), "Value1" >>,
      << ValueKey(U64(0)), "Value4" >>, << ValueKey(U64(0)), "Value2" >>,
      << ValueKey(U64(0)), "Value3" >> }

RECURSIVE Drawn(_, _)
\* the number of values drawn from the generators gs[i..]
Drawn(gs, i) == IF i > Len(gs) THEN 0 ELSE Len(gs[i].outs) + Drawn(gs, i + 1)

Ops == Len(made) + Len(vals) + Len(gens) + Drawn(gens, 1)

\* a draw that advances every generator of the same (seed, key, type)
advance_shared(gs, i) ==
    LET h == gs[i]
        r == sample(distribution(h.key.K, h.T), h.T, h.state)
    IN  [j \in DOMAIN gs |->
            IF gs[j].seed = h.seed /\ gs[j].key = h.key /\ gs[j].T = h.T
            THEN [gs[j] EXCEPT !.state = r.state, !.outs = Append(@, r.value)]
            ELSE gs[j]]

\* One draw of the generator's own type through its distribution, on the
\* caller's handle i: `rng.gen::<T>()`
advance(gs, i) ==
    LET h == gs[i]
        r == sample(distribution(h.key.K, h.T), h.T, h.state)
    IN  [gs EXCEPT ![i] = [h EXCEPT !.state = r.state, !.outs = Append(@, r.value)]]

Init ==
    /\ endian \in {"little", "big"}
    /\ seed = Seed_default
    /\ made = << >>
    /\ vals = << >>
    /\ gens = << >>

\* Seed::from(value)
From(value) ==
    /\ seed' = Seed_from(value)
    /\ UNCHANGED << endian, made, vals, gens >>

\* Seed::new_from_str(str)
NewFromStr(str) ==
    /\ seed' = new_from_str(str, endian)
    /\ made' = Append(made, [str |-> str, seed |-> seed'])
    /\ UNCHANGED << endian, vals, gens >>

\* seed.generate::<T>(&k)
Generate(k, T) ==
    /\ << k.K, T >> \in Impls
    /\ vals' = Append(vals, [seed |-> seed, key |-> k, T |-> T,
                             value |-> generate(seed, k, T)])
    /\ UNCHANGED << endian, seed, made, gens >>

\* seed.rng::<T>(&k)
Rng(k, T) ==
    /\ << k.K, T >> \in Impls
    /\ LET r == rng(seed, k, T)
       IN  gens' = Append(gens, [seed |-> seed, key |-> k, T |-> T,
                                 init |-> r, state |-> r, outs |-> << >>])
    /\ UNCHANGED << endian, seed, made, vals >>

\* rng.gen::<T>() on the i-th generator
Draw(i) ==
    /\ i \in DOMAIN gens
    /\ gens' = advance(gens, i)
    /\ UNCHANGED << endian, seed, made, vals >>

\* the caller goes on with a Seed it generated (Distribution<Seed>)
Adopt(i) ==
    /\ i \in DOMAIN vals
    /\ vals[i].T = "Seed"
    /\ seed' = vals[i].value
    /\ UNCHANGED << endian, made, vals, gens >>

\* Call histories: any interleaving of constructions, calls and draws
Next ==
    \/ \E value \in HValues : From(value)
    \/ Ops < MaxOps /\ \E str \in HStrings : NewFromStr(str)
    \/ Ops < MaxOps /\ \E k \in HKeys, T \in HTypes : Generate(k, T)
    \/ Ops < MaxOps /\ \E k \in HKeys, T \in HTypes : Rng(k, T)
    \/ Ops < MaxOps /\ \E i \in 1..MaxOps : Draw(i)

Spec == Init /\ [][Next]_vars

\* Seed constructions: from integers, from strings, and sampled from a generator
NextSeed ==
    \/ \E value \in SValues : From(value)
    \/ Ops < MaxOps /\ \E str \in Strings : NewFromStr(str)
    \/ Ops < MaxOps /\ \E k \in SKeys : Generate(k, "Seed")
    \/ \E i \in 1..MaxOps : Adopt(i)

SpecSeed == Init /\ [][NextSeed]_vars

\* Derivations: up to MaxGens generators for any seeds, keys and types
NextDerive ==
    \/ \E value \in DValues : From(value)
    \/ Len(gens) < MaxGens /\ \E c \in DCalls : Rng(c[1], c[2])
    \/ Ops < MaxOps /\ \E i \in 1..MaxGens : Draw(i)

SpecDerive == Init /\ [][NextDerive]_vars

\* ------------------------------------------------------------------------
\* Properties
\* ------------------------------------------------------------------------

\* two calls (or generators) for the same Seed, the same key and the same type
SameTriple(a, b) == a.seed = b.seed /\ a.key = b.key /\ a.T = b.T

Min(a, b) == IF a <= b THEN a ELSE b

\* the values both generators have drawn so far agree, draw by draw
SameDraws(g, h) ==
    \A n \in 1..Min(Len(g.outs), Len(h.outs)) : g.outs[n] = h.outs[n]

\* seed ^ XOR of a generator's call, the part of the mix that is not the key
Unkeyed(g) == BitXor(g.seed, XOR(g.key.K, g.T))

\* C1: two generate calls with the same seed, the same key (the unit key
\* included) and the same type return equal values, whatever was called,
\* constructed or drawn between them.
C1_Determinism ==
    \A i, j \in DOMAIN vals :
        SameTriple(vals[i], vals[j]) => vals[i].value = vals[j].value

\* generate was called twice for a ValueKey and twice for the unit key
C1_Witness ==
    /\ \E i, j \in DOMAIN vals :
          i < j /\ SameTriple(vals[i], vals[j]) /\ vals[i].key = UnitKey
    /\ \E i, j \in DOMAIN vals :
          i < j /\ SameTriple(vals[i], vals[j]) /\ vals[i].key = ValueKey(U64(7))

\* C2: the first value drawn, through T's distribution, from the generator
\* rng returned for (seed, key, T) is the value generate returned for
\* (seed, key, T).
C2_RngGenerateAgree ==
    \A i \in DOMAIN gens, j \in DOMAIN vals :
        (SameTriple(gens[i], vals[j]) /\ gens[i].outs # << >>)
            => gens[i].outs[1] = vals[j].value

\* a generator was drawn from and generate was called for the same triple
C2_Witness ==
    \E i \in DOMAIN gens, j \in DOMAIN vals :
        SameTriple(gens[i], vals[j]) /\ gens[i].outs # << >>

\* C6: a generate or rng call, or a draw, leaves the Seed, the platform and
\* every earlier result as they were, and what the call returns is what every
\* earlier call for the same (seed, key, type) returned: the same value from
\* generate, a generator in the same initial state from rng, also after
\* earlier generators were drawn from.
C6_Step ==
    (vals' # vals \/ gens' # gens) =>
        /\ seed' = seed /\ endian' = endian /\ made' = made
        /\ Len(vals') >= Len(vals) /\ Len(gens') >= Len(gens)
        /\ \A i \in DOMAIN vals : vals'[i] = vals[i]
        /\ \A i \in DOMAIN gens :
              /\ SameTriple(gens'[i], gens[i])
              /\ gens'[i].init = gens[i].init
        /\ \A j \in DOMAIN vals' \ DOMAIN vals : \A i \in DOMAIN vals :
              SameTriple(vals[i], vals'[j]) => vals'[j].value = vals[i].value
        /\ \A j \in DOMAIN gens' \ DOMAIN gens :
              /\ gens'[j].state = gens'[j].init
              /\ \A i \in DOMAIN gens :
                    SameTriple(gens[i], gens'[j]) => gens'[j].init = gens[i].init

\* C6: every step of every history is such a step: generate and rng are
\* independent of the order and the number of the calls before them.
C6_OrderIndependent == [][C6_Step]_vars

\* rng was called again for a triple whose first generator has been drawn
\* from, and generate was called for that triple too
C6_Witness ==
    \E i, j \in DOMAIN gens, n \in DOMAIN vals :
        /\ i < j
        /\ SameTriple(gens[i], gens[j])
        /\ SameTriple(gens[i], vals[n])
        /\ gens[i].outs # << >>
        /\ gens[j].outs = << >>

\* C7: two generators from rng with the same (seed, key, type) start in the
\* same state, their draws agree one by one, they are in the same state after
\* the same number of draws, and a draw on one leaves every other generator
\* as it was.
C7_Twins ==
    \A i, j \in DOMAIN gens :
        SameTriple(gens[i], gens[j]) =>
            /\ gens[i].init = gens[j].init
            /\ SameDraws(gens[i], gens[j])
            /\ Len(gens[i].outs) = Len(gens[j].outs) => gens[i].state = gens[j].state

C7_DrawIsLocal ==
    \A i, j \in DOMAIN gens :
        (i # j /\ gens'[i] # gens[i]) => gens'[j] = gens[j]

\* C7: generators of one triple are twins in every state, and every draw is
\* local to its generator.
C7_IndependentHandles == [](C7_Twins) /\ [][C7_DrawIsLocal]_vars

\* two generators of one triple, both drawn from
C7_Witness ==
    \E i, j \in DOMAIN gens :
        /\ i # j
        /\ SameTriple(gens[i], gens[j])
        /\ gens[i].outs # << >>
        /\ gens[j].outs # << >>

\* C9: new_from_str returns the same Seed for the same string, and the Seed
\* is the first 16 bytes of the string's hash read as one u128 in the
\* platform's byte order, for every string, the empty one included.
C9_StringSeed ==
    /\ \A m, n \in DOMAIN made :
          made[m].str = made[n].str => made[m].seed = made[n].seed
    /\ \A m \in DOMAIN made :
          /\ DOMAIN made[m].seed = 1..16
          /\ \A i \in 1..16 :
                made[m].seed[IF endian = "little" THEN i ELSE 17 - i]
                    = blake3_hash(made[m].str)[i]

\* the empty string was hashed twice, with another string between
C9_Witness ==
    \E m, n, q \in DOMAIN made :
        /\ m < n /\ n < q
        /\ made[m].str = "" /\ made[n].str # "" /\ made[q].str = ""

\* the low and the high 64 bits of a u128
Low64(x) == [i \in 1..8 |-> x[i]]
High64(x) == [i \in 1..8 |-> x[i + 8]]

\* x and y are equal or differ in bit 0 alone
SameAboveBit0(x, y) ==
    /\ x[1] \div 2 = y[1] \div 2
    /\ \A i \in 2..16 : x[i] = y[i]

\* C3: with the same seed and the same XOR constant, two keys whose key()
\* differ give generators in different initial states; the key reaches the mix
\* in bits 64..127 alone: the low 64 bits of the mix are those of seed ^ XOR,
\* the high 64 bits are those of seed ^ XOR, xor key().
C3_KeySeparation ==
    /\ \A i, j \in DOMAIN gens :
          ( /\ gens[i].seed = gens[j].seed
            /\ XOR(gens[i].key.K, gens[i].T) = XOR(gens[j].key.K, gens[j].T)
            /\ key(gens[i].key) # key(gens[j].key) )
              => gens[i].init # gens[j].init
    /\ \A i \in DOMAIN gens :
          LET g == gens[i]
              mix == rng_seed(g.seed, g.key, g.T)
          IN  /\ Low64(mix) = Low64(Unkeyed(g))
              /\ High64(mix) = BitXor(High64(Unkeyed(g)), key(g.key))

\* rng was called for keys 0 and 1 with the same seed and type
C3_Witness ==
    \E i, j \in DOMAIN gens :
        /\ gens[i].seed = gens[j].seed
        /\ gens[i].T = gens[j].T
        /\ gens[i].key = ValueKey(U64(0))
        /\ gens[j].key = ValueKey(U64(1))

\* C4: with the same key and the same type, two seeds that differ give
\* generators in different states.
C4_SeedSeparation ==
    \A i, j \in DOMAIN gens :
        ( /\ gens[i].key = gens[j].key
          /\ gens[i].T = gens[j].T
          /\ gens[i].seed # gens[j].seed )
            => gens[i].init # gens[j].init

\* C5: with the same seed and the same key, two value types whose XOR
\* constants differ give generators in different states.
C5_TypeSeparation ==
    \A i, j \in DOMAIN gens :
        ( /\ gens[i].seed = gens[j].seed
          /\ gens[i].key = gens[j].key
          /\ XOR(gens[i].key.K, gens[i].T) # XOR(gens[j].key.K, gens[j].T) )
            => gens[i].init # gens[j].init

\* C8: two declarations with the same XOR constant give, for the same seed and
\* the same key(), generators in the same initial state, which draw the same
\* values; rng returns a generator (a u128 state) all the same.
C8_ConstantReuse ==
    \A i, j \in DOMAIN gens :
        ( /\ gens[i].seed = gens[j].seed
          /\ key(gens[i].key) = key(gens[j].key)
          /\ XOR(gens[i].key.K, gens[i].T) = XOR(gens[j].key.K, gens[j].T)
          /\ << gens[i].key.K, gens[i].T >> # << gens[j].key.K, gens[j].T >> )
            => /\ gens[i].init = gens[j].init
               /\ SameDraws(gens[i], gens[j])
               /\ gens[i].init \in [1..16 -> 0..255]
               /\ gens[j].init \in [1..16 -> 0..255]

\* Value1 and Value4 share a constant: both were asked of one seed and key,
\* and both generators were drawn from
C8_Witness ==
    \E i, j \in DOMAIN gens :
        /\ gens[i].seed = gens[j].seed
        /\ gens[i].key = gens[j].key
        /\ gens[i].T = "Value1"
        /\ gens[j].T = "Value4"
        /\ gens[i].outs # << >>
        /\ gens[j].outs # << >>

====
